---- MODULE Spec2Model ----
(***************************************************************************)
(* Model of the QuickGame C++ convenience layer (src/include/Tilemap.h,    *)
(* lines 76-489): the free functions of namespace QuickGame and the        *)
(* wrapper classes Graphics::Mesh, Graphics::Texture and Graphics::Sprite. *)
(*                                                                         *)
(* The C engine behind the wrappers is not part of the sources.  Its       *)
(* answers (a handle or NULL, a status) are nondeterministic inputs of the *)
(* actions; its Destroy functions follow the convention documented at      *)
(* Tilemap.h:63-68 (the handle passed by address "also gets set to null"). *)
(*                                                                         *)
(* Objects live in a pool of storage slots.  A slot is "none" before       *)
(* construction, holds a Mesh, a Texture or a Sprite while the object      *)
(* lives, and is "dead" once its destructor has run.  A constructor        *)
(* that throws leaves the slot "none": the object never existed.           *)
(*                                                                         *)
(* Undefined behaviour (use of a handle the engine has already destroyed,  *)
(* a read through a null handle) has two outcomes: the program crashes     *)
(* inside the operation, or the operation runs on as the machine code      *)
(* would on memory that is still mapped.                                   *)
(***************************************************************************)
EXTENDS Integers, Sequences, FiniteSets, TLC

\* ---------------------------------------------------------------- bounds
NumSlots == 2
MaxHandles == 2

\* ------------------------------------------------------------- constants
NULL == 0
White == "0xFFFFFFFF"

Slots == 1..NumSlots
Handles == 1..MaxHandles
Types == {"TEXTURED", "COLORED"}
Classes == {"Mesh", "Texture", "Sprite"}
Counts == {1, 2}
Pointers == {NULL, 1}
Statuses == {-1, 0}
\* Inputs of the operations: <<type, vcount, icount>> of a mesh, <<vcount, icount>>
\* of add_data, <<position, size>> of a sprite (a QGVector2 is <<x, y>>), and the
\* values a caller assigns to Sprite::transform (<<position, rotation, scale>>)
\* and Sprite::layer.
MeshArgs == {<<"TEXTURED", 1, 2>>, <<"COLORED", 2, 1>>}
DataCounts == {<<1, 2>>}
SpriteArgs == {<<(<<0, 1>>), (<<1, 2>>)>>}
Transforms == {<<(<<0, 1>>), 0, (<<1, 2>>)>>, <<(<<1, 1>>), 1, (<<2, 2>>)>>}
Layers == {0, 1}

VARIABLES
    objs,        \* slot -> the wrapper object stored there
    destroys,    \* handle -> times it was passed to an engine Destroy (0, 1, 2 = more)
    emesh,       \* handle -> the engine's mesh structure (ir->type, ir->data, ir->indices)
    espr,        \* handle -> the engine's sprite structure (ir->transform, ir->layer)
    nextHandle,  \* the next handle the engine hands out
    last,        \* what the last completed call into the layer did
    crashed      \* the program died inside an operation with undefined behaviour

vars == <<objs, destroys, emesh, espr, nextHandle, last, crashed>>

NoObject == [cls |-> "none", ir |-> NULL, transform |-> <<>>, layer |-> 0, color |-> ""]
DeadObject(ir) == [NoObject EXCEPT !.cls = "dead", !.ir = ir]
NoMesh == [type |-> "", data |-> <<>>, indices |-> <<>>]
NoSprite == [transform |-> <<>>, layer |-> 0]

\* The record a call leaves in `last`: whether it threw, how often it called the
\* engine function whose failure it has to handle (engCalls), with which arguments
\* (engArgs), whether that call failed (engFail), the value returned to the caller
\* (ret); and of Sprite::draw whether the sprite held a handle (held), the sprite's
\* own <<transform, layer>> (fields), the calls of QuickGame_Sprite_Draw (draws) and
\* the engine sprite's <<transform, layer>> at that call (drawn).
Rec(op) ==
    [op |-> op, threw |-> FALSE, engCalls |-> 0, engFail |-> FALSE,
     engArgs |-> <<>>, ret |-> NULL,
     held |-> FALSE, fields |-> <<>>, draws |-> 0, drawn |-> <<>>]

\* ----------------------------------------------------------- the engine
\* What an engine Create/Load call can answer: NULL, or a fresh handle.
EngineCreate == {NULL} \cup (IF nextHandle <= MaxHandles THEN {nextHandle} ELSE {})

\* QuickGame_*_Destroy(&ir): destroys *ir and sets it to NULL; no-op on NULL.
EngineDestroy(ir) == [ir |-> NULL, destroyed |-> ir]

\* The handle was already destroyed by the engine: any use is undefined.
Dangling(h) == h # NULL /\ destroys[h] > 0

\* destroys[h] is 0, 1, or 2 for "twice or more".
Destroyed(h) ==
    IF h = NULL THEN destroys
    ELSE [destroys EXCEPT ![h] = IF @ = 0 THEN 1 ELSE 2]

Advance(h) == IF h = NULL THEN nextHandle ELSE h + 1

\* Storage is handed out in slot order: a new object takes the first unused slot.
Unused(s) == objs[s].cls = "none" /\ \A t \in Slots : t < s => objs[t].cls # "none"

\* The engine frees the structure behind a destroyed handle: its contents are gone.
Freed(mem, h, blank) == IF h = NULL THEN mem ELSE [mem EXCEPT ![h] = blank]

Crash ==
    /\ crashed' = TRUE
    /\ UNCHANGED <<objs, destroys, emesh, espr, nextHandle, last>>

Init ==
    /\ objs = [s \in Slots |-> NoObject]
    /\ destroys = [h \in Handles |-> 0]
    /\ emesh = [h \in Handles |-> NoMesh]
    /\ espr = [h \in Handles |-> NoSprite]
    /\ nextHandle = 1
    /\ last = Rec("none")
    /\ crashed = FALSE

\* ------------------------------------------------- namespace QuickGame
\* init(): throws when QuickGame_Init() < 0.
init_throws(status) == status < 0

init(status) ==
    /\ ~crashed
    /\ last' = [Rec("init") EXCEPT !.engCalls = 1, !.engFail = (status < 0),
                                !.threw = init_throws(status)]
    /\ UNCHANGED <<objs, destroys, emesh, espr, nextHandle, crashed>>

\* allocate(n): returns QuickGame_Allocate(n) as it is.
allocate(n, r) ==
    /\ ~crashed
    /\ last' = [Rec("allocate") EXCEPT !.engCalls = 1, !.engFail = (r = NULL),
                                          !.engArgs = <<n>>, !.ret = r]
    /\ UNCHANGED <<objs, destroys, emesh, espr, nextHandle, crashed>>

\* allocate_aligned(a, n): returns QuickGame_Allocate_Aligned(a, n) as it is.
allocate_aligned(a, n, r) ==
    /\ ~crashed
    /\ last' = [Rec("allocate_aligned") EXCEPT !.engCalls = 1, !.engFail = (r = NULL),
                                                  !.engArgs = <<a, n>>, !.ret = r]
    /\ UNCHANGED <<objs, destroys, emesh, espr, nextHandle, crashed>>

\* Graphics::init(): calls QuickGame_Graphics_Init() and drops whatever it reports.
Graphics_init(status) ==
    /\ ~crashed
    /\ last' = [Rec("Graphics::init") EXCEPT !.engCalls = 1, !.engFail = (status < 0)]
    /\ UNCHANGED <<objs, destroys, emesh, espr, nextHandle, crashed>>

\* ------------------------------------------------------- Graphics::Mesh
\* Mesh::delete_data(): QuickGame_Graphics_Destroy_Mesh(&ir).
delete_data(ir) == EngineDestroy(ir)

\* create_mesh passing icount where the engine expects vcount, and the reverse.
create_mesh_swapped(ir, type, vcount, icount, r) ==
    LET deleted == delete_data(ir)
        after == IF ir # NULL THEN deleted.ir ELSE r
    IN [ir |-> after,
        destroyed |-> IF ir # NULL THEN deleted.destroyed ELSE NULL,
        creates |-> IF ir # NULL THEN 0 ELSE 1,
        engArgs |-> IF ir # NULL THEN <<>> ELSE <<type, icount, vcount>>,
        created |-> IF ir # NULL THEN NULL ELSE r,
        threw |-> after = NULL]

\* Mesh::create_mesh(type, vcount, icount) on a Mesh whose handle is ir, when the
\* engine would answer r: the handle afterwards, the handle given to Destroy,
\* the calls of QuickGame_Graphics_Create_Mesh and their arguments, the throw.
create_mesh(ir, type, vcount, icount, r) ==
    LET deleted == delete_data(ir)
        after == IF ir # NULL THEN deleted.ir ELSE r
    IN [ir |-> after,
        destroyed |-> IF ir # NULL THEN deleted.destroyed ELSE NULL,
        creates |-> IF ir # NULL THEN 0 ELSE 1,
        engArgs |-> IF ir # NULL THEN <<>> ELSE <<type, vcount, icount>>,
        created |-> IF ir # NULL THEN NULL ELSE r,
        threw |-> after = NULL]

CreatedMesh(res) ==
    IF res.created = NULL THEN Freed(emesh, res.destroyed, NoMesh)
    ELSE [emesh EXCEPT ![res.created] =
            [type |-> res.engArgs[1], data |-> <<>>, indices |-> <<>>]]

CreateRec(op, res) ==
    [Rec(op) EXCEPT !.threw = res.threw, !.engCalls = res.creates,
                    !.engFail = (res.creates > 0 /\ res.created = NULL),
                    !.engArgs = res.engArgs]

\* Mesh() : ir(NULL) {}
Mesh_default(s) ==
    /\ ~crashed
    /\ Unused(s)
    /\ objs' = [objs EXCEPT ![s] = [NoObject EXCEPT !.cls = "Mesh", !.ir = NULL]]
    /\ last' = Rec("Mesh()")
    /\ UNCHANGED <<destroys, emesh, espr, nextHandle, crashed>>

\* Mesh(type, vcount, icount) : ir(NULL) { create_mesh(type, vcount, icount); }
Mesh_ctor(s, type, vcount, icount, r) ==
    LET res == create_mesh(NULL, type, vcount, icount, r)
    IN /\ ~crashed
       /\ Unused(s)
       /\ objs' = IF res.threw THEN objs
                  ELSE [objs EXCEPT ![s] = [NoObject EXCEPT !.cls = "Mesh", !.ir = res.ir]]
       /\ destroys' = Destroyed(res.destroyed)
       /\ emesh' = CreatedMesh(res)
       /\ nextHandle' = Advance(res.created)
       /\ last' = CreateRec("Mesh(type,vcount,icount)", res)
       /\ UNCHANGED <<espr, crashed>>

Mesh_create_mesh(s, type, vcount, icount, r) ==
    LET pre == objs[s].ir
        res == create_mesh(pre, type, vcount, icount, r)
    IN /\ ~crashed
       /\ objs[s].cls = "Mesh"
       /\ \/ Dangling(pre) /\ Crash
          \/ /\ objs' = [objs EXCEPT ![s].ir = res.ir]
             /\ destroys' = Destroyed(res.destroyed)
             /\ emesh' = CreatedMesh(res)
             /\ nextHandle' = Advance(res.created)
             /\ last' = CreateRec("create_mesh", res)
             /\ UNCHANGED <<espr, crashed>>

\* The element size add_data picks from ir->type.
VertexSize(type) ==
    IF type = "TEXTURED" THEN "sizeof(QGTexturedVertex)" ELSE "sizeof(QGColoredVertex)"

\* add_data checking verts only.
add_data_verts_only(ir, verts, vcount, indices, icount) ==
    IF verts = NULL
    THEN [threw |-> TRUE, reads |-> FALSE, data |-> <<>>, indices |-> <<>>]
    ELSE [threw |-> FALSE, reads |-> TRUE,
          data |-> IF ir = NULL THEN <<>>
                   ELSE <<verts, vcount, VertexSize(emesh[ir].type)>>,
          indices |-> <<indices, icount, "sizeof(u16)">>]

\* Mesh::add_data(verts, vcount, indices, icount) on a Mesh whose handle is ir.
add_data(ir, verts, vcount, indices, icount) ==
    IF verts = NULL \/ indices = NULL
    THEN [threw |-> TRUE, reads |-> FALSE, data |-> <<>>, indices |-> <<>>]
    ELSE [threw |-> FALSE, reads |-> TRUE,
          data |-> IF ir = NULL THEN <<>>
                   ELSE <<verts, vcount, VertexSize(emesh[ir].type)>>,
          indices |-> <<indices, icount, "sizeof(u16)">>]

Mesh_add_data(s, verts, vcount, indices, icount) ==
    LET ir == objs[s].ir
        res == add_data(ir, verts, vcount, indices, icount)
        undefined == res.reads /\ (ir = NULL \/ Dangling(ir))
    IN /\ ~crashed
       /\ objs[s].cls = "Mesh"
       /\ \/ undefined /\ Crash
          \/ /\ emesh' = IF res.reads /\ ~undefined
                         THEN [emesh EXCEPT ![ir].data = res.data,
                                            ![ir].indices = res.indices]
                         ELSE emesh
             /\ last' = [Rec("add_data") EXCEPT !.threw = res.threw]
             /\ UNCHANGED <<objs, destroys, espr, nextHandle, crashed>>

Mesh_delete_data(s) ==
    LET pre == objs[s].ir
        res == delete_data(pre)
    IN /\ ~crashed
       /\ objs[s].cls = "Mesh"
       /\ \/ Dangling(pre) /\ Crash
          \/ /\ objs' = [objs EXCEPT ![s].ir = res.ir]
             /\ destroys' = Destroyed(res.destroyed)
             /\ emesh' = Freed(emesh, res.destroyed, NoMesh)
             /\ last' = Rec("delete_data")
             /\ UNCHANGED <<espr, nextHandle, crashed>>

\* virtual ~Mesh() { delete_data(); }
Mesh_dtor(s) ==
    LET pre == objs[s].ir
        res == delete_data(pre)
    IN /\ ~crashed
       /\ objs[s].cls = "Mesh"
       /\ \/ Dangling(pre) /\ Crash
          \/ /\ objs' = [objs EXCEPT ![s] = DeadObject(res.ir)]
             /\ destroys' = Destroyed(res.destroyed)
             /\ emesh' = Freed(emesh, res.destroyed, NoMesh)
             /\ last' = Rec("~Mesh")
             /\ UNCHANGED <<espr, nextHandle, crashed>>

\* ---------------------------------------------------- Graphics::Texture
\* Texture(filename, flip, vram): ir = QuickGame_Texture_Load(...), throws on null.
Texture_Load(r) == [ir |-> r, threw |-> r = NULL]

\* The constructor without its null check.
Texture_Load_Alt_unchecked(r) == [ir |-> r, threw |-> FALSE]

\* Texture(tex_info): ir = QuickGame_Texture_Load_Alt(tex_info), throws on null.
Texture_Load_Alt(r) == [ir |-> r, threw |-> r = NULL]

Constructed(op, s, cls, res, r, engArgs) ==
    /\ objs' = IF res.threw THEN objs
               ELSE [objs EXCEPT ![s] = [NoObject EXCEPT !.cls = cls, !.ir = res.ir]]
    /\ nextHandle' = Advance(r)
    /\ last' = [Rec(op) EXCEPT !.threw = res.threw, !.engCalls = 1,
                               !.engFail = (r = NULL), !.engArgs = engArgs]

Texture_ctor(s, r) ==
    /\ ~crashed
    /\ Unused(s)
    /\ Constructed("Texture(filename,flip,vram)", s, "Texture", Texture_Load(r), r, <<>>)
    /\ UNCHANGED <<destroys, emesh, espr, crashed>>

Texture_ctor_alt(s, r) ==
    /\ ~crashed
    /\ Unused(s)
    /\ Constructed("Texture(tex_info)", s, "Texture", Texture_Load_Alt(r), r, <<>>)
    /\ UNCHANGED <<destroys, emesh, espr, crashed>>

\* virtual ~Texture() { QuickGame_Texture_Destroy(&ir); }
Texture_dtor(s) ==
    LET pre == objs[s].ir
        res == EngineDestroy(pre)
    IN /\ ~crashed
       /\ objs[s].cls = "Texture"
       /\ \/ Dangling(pre) /\ Crash
          \/ /\ objs' = [objs EXCEPT ![s] = DeadObject(res.ir)]
             /\ destroys' = Destroyed(res.destroyed)
             /\ last' = Rec("~Texture")
             /\ UNCHANGED <<emesh, espr, nextHandle, crashed>>

\* ----------------------------------------------------- Graphics::Sprite
\* The fields both Sprite constructors set before the engine call, and the check after.
Sprite_Create(position, size, r) ==
    [transform |-> <<position, 0, size>>, layer |-> 0, color |-> White,
     ir |-> r, threw |-> r = NULL]

\* The constructor without its null check.
Sprite_Create_Contained_unchecked(position, size, r) ==
    [transform |-> <<position, 0, size>>, layer |-> 0, color |-> White,
     ir |-> r, threw |-> FALSE]

Sprite_Create_Contained(position, size, r) ==
    [transform |-> <<position, 0, size>>, layer |-> 0, color |-> White,
     ir |-> r, threw |-> r = NULL]

SpriteConstructed(op, s, res, r, engArgs) ==
    /\ objs' = IF res.threw THEN objs
               ELSE [objs EXCEPT ![s] = [cls |-> "Sprite", ir |-> res.ir,
                                         transform |-> res.transform,
                                         layer |-> res.layer, color |-> res.color]]
    /\ nextHandle' = Advance(r)
    /\ last' = [Rec(op) EXCEPT !.threw = res.threw, !.engCalls = 1,
                               !.engFail = (r = NULL), !.engArgs = engArgs]

\* Sprite(position, size, Texture* texture): texture points to the live Texture in slot t.
Sprite_ctor(s, position, size, t, r) ==
    /\ ~crashed
    /\ Unused(s)
    /\ objs[t].cls = "Texture"
    /\ \/ Dangling(objs[t].ir) /\ Crash
       \/ /\ SpriteConstructed("Sprite(position,size,texture)", s,
                               Sprite_Create(position, size, r), r,
                               <<position, size, objs[t].ir>>)
          /\ UNCHANGED <<destroys, emesh, espr, crashed>>

\* Sprite(position, size, tex_info): the engine loads and owns the texture.
Sprite_ctor_contained(s, position, size, r) ==
    /\ ~crashed
    /\ Unused(s)
    /\ SpriteConstructed("Sprite(position,size,tex_info)", s,
                         Sprite_Create_Contained(position, size, r), r,
                         <<position[1], position[2], size[1], size[2]>>)
    /\ UNCHANGED <<destroys, emesh, espr, crashed>>

\* virtual ~Sprite() { QuickGame_Sprite_Destroy(&ir); }
Sprite_dtor(s) ==
    LET pre == objs[s].ir
        res == EngineDestroy(pre)
    IN /\ ~crashed
       /\ objs[s].cls = "Sprite"
       /\ \/ Dangling(pre) /\ Crash
          \/ /\ objs' = [objs EXCEPT ![s] = DeadObject(res.ir)]
             /\ destroys' = Destroyed(res.destroyed)
             /\ espr' = Freed(espr, res.destroyed, NoSprite)
             /\ last' = Rec("~Sprite")
             /\ UNCHANGED <<emesh, nextHandle, crashed>>

\* The caller assigns the public fields Sprite::transform and Sprite::layer.
Sprite_set_transform(s, t) ==
    /\ ~crashed
    /\ objs[s].cls = "Sprite"
    /\ objs' = [objs EXCEPT ![s].transform = t]
    /\ UNCHANGED <<destroys, emesh, espr, nextHandle, last, crashed>>

Sprite_set_layer(s, l) ==
    /\ ~crashed
    /\ objs[s].cls = "Sprite"
    /\ objs' = [objs EXCEPT ![s].layer = l]
    /\ UNCHANGED <<destroys, emesh, espr, nextHandle, last, crashed>>

\* draw copying the transform but not the layer.
draw_without_layer(o, e) ==
    IF o.ir = NULL THEN [draws |-> 0, e |-> e]
    ELSE [draws |-> 1, e |-> [transform |-> o.transform, layer |-> e.layer]]

\* Sprite::draw() of the sprite o whose engine structure is e: the calls of
\* QuickGame_Sprite_Draw and the engine structure at that call.
draw(o, e) ==
    IF o.ir = NULL THEN [draws |-> 0, e |-> e]
    ELSE [draws |-> 1, e |-> [transform |-> o.transform, layer |-> o.layer]]

Sprite_draw(s) ==
    LET pre == objs[s].ir
        res == draw(objs[s], IF pre = NULL THEN NoSprite ELSE espr[pre])
    IN /\ ~crashed
       /\ objs[s].cls = "Sprite"
       /\ \/ Dangling(pre) /\ Crash
          \/ /\ espr' = IF pre = NULL \/ Dangling(pre) THEN espr
                        ELSE [espr EXCEPT ![pre] = res.e]
             /\ last' = [Rec("draw") EXCEPT
                           !.held = (pre # NULL),
                           !.fields = <<objs[s].transform, objs[s].layer>>,
                           !.draws = res.draws,
                           !.drawn = IF res.draws = 0 THEN <<>>
                                     ELSE <<res.e.transform, res.e.layer>>]
             /\ UNCHANGED <<objs, destroys, emesh, nextHandle, crashed>>

\* ------------------------------------------- implicit copy operations
\* No class declares a copy constructor or a copy assignment, so the compiler
\* supplies memberwise ones: T b = a; and b = a; copy every field, ir included.
copy_construct(a, b) ==
    /\ ~crashed
    /\ objs[a].cls \in Classes
    /\ Unused(b)
    /\ objs' = [objs EXCEPT ![b] = objs[a]]
    /\ last' = Rec("copy")
    /\ UNCHANGED <<destroys, emesh, espr, nextHandle, crashed>>

copy_assign(a, b) ==
    /\ ~crashed
    /\ a # b
    /\ objs[a].cls \in Classes
    /\ objs[b].cls = objs[a].cls
    /\ objs' = [objs EXCEPT ![b] = objs[a]]
    /\ last' = Rec("assign")
    /\ UNCHANGED <<destroys, emesh, espr, nextHandle, crashed>>

\* Every operation of the layer.
Next ==
    \/ \E status \in Statuses : init(status)
    \/ \E n \in Counts, r \in Pointers : allocate(n, r)
    \/ \E a \in Counts, n \in Counts, r \in Pointers : allocate_aligned(a, n, r)
    \/ \E status \in Statuses : Graphics_init(status)
    \/ \E s \in Slots : Mesh_default(s)
    \/ \E s \in Slots, m \in MeshArgs, r \in EngineCreate :
          Mesh_ctor(s, m[1], m[2], m[3], r)
    \/ \E s \in Slots, m \in MeshArgs, r \in EngineCreate :
          Mesh_create_mesh(s, m[1], m[2], m[3], r)
    \/ \E s \in Slots, verts \in Pointers, indices \in Pointers, c \in DataCounts :
          Mesh_add_data(s, verts, c[1], indices, c[2])
    \/ \E s \in Slots : Mesh_delete_data(s)
    \/ \E s \in Slots : Mesh_dtor(s)
    \/ \E s \in Slots, r \in EngineCreate : Texture_ctor(s, r)
    \/ \E s \in Slots, r \in EngineCreate : Texture_ctor_alt(s, r)
    \/ \E s \in Slots : Texture_dtor(s)
    \/ \E s \in Slots, p \in SpriteArgs, t \in Slots, r \in EngineCreate :
          Sprite_ctor(s, p[1], p[2], t, r)
    \/ \E s \in Slots, p \in SpriteArgs, r \in EngineCreate :
          Sprite_ctor_contained(s, p[1], p[2], r)
    \/ \E s \in Slots : Sprite_dtor(s)
    \/ \E s \in Slots, t \in Transforms : Sprite_set_transform(s, t)
    \/ \E s \in Slots, l \in Layers : Sprite_set_layer(s, l)
    \/ \E s \in Slots : Sprite_draw(s)
    \/ \E a \in Slots, b \in Slots : copy_construct(a, b)
    \/ \E a \in Slots, b \in Slots : copy_assign(a, b)

Spec == Init /\ [][Next]_vars

\* The life cycle of the handles: the free functions, construction, create_mesh,
\* delete_data, copying and destruction.
NextLife ==
    \/ \E status \in Statuses : init(status)
    \/ \E n \in Counts, r \in Pointers : allocate(n, r)
    \/ \E a \in Counts, n \in Counts, r \in Pointers : allocate_aligned(a, n, r)
    \/ \E status \in Statuses : Graphics_init(status)
    \/ \E s \in Slots : Mesh_default(s)
    \/ \E s \in Slots, m \in MeshArgs, r \in EngineCreate :
          Mesh_ctor(s, m[1], m[2], m[3], r)
    \/ \E s \in Slots, m \in MeshArgs, r \in EngineCreate :
          Mesh_create_mesh(s, m[1], m[2], m[3], r)
    \/ \E s \in Slots : Mesh_delete_data(s)
    \/ \E s \in Slots : Mesh_dtor(s)
    \/ \E s \in Slots, r \in EngineCreate : Texture_ctor(s, r)
    \/ \E s \in Slots, r \in EngineCreate : Texture_ctor_alt(s, r)
    \/ \E s \in Slots : Texture_dtor(s)
    \/ \E s \in Slots, p \in SpriteArgs, t \in Slots, r \in EngineCreate :
          Sprite_ctor(s, p[1], p[2], t, r)
    \/ \E s \in Slots, p \in SpriteArgs, r \in EngineCreate :
          Sprite_ctor_contained(s, p[1], p[2], r)
    \/ \E s \in Slots : Sprite_dtor(s)
    \/ \E a \in Slots, b \in Slots : copy_construct(a, b)
    \/ \E a \in Slots, b \in Slots : copy_assign(a, b)

SpecLife == Init /\ [][NextLife]_vars

\* A program that uses Mesh objects only.
NextMesh ==
    \/ \E s \in Slots : Mesh_default(s)
    \/ \E s \in Slots, m \in MeshArgs, r \in EngineCreate :
          Mesh_ctor(s, m[1], m[2], m[3], r)
    \/ \E s \in Slots, m \in MeshArgs, r \in EngineCreate :
          Mesh_create_mesh(s, m[1], m[2], m[3], r)
    \/ \E s \in Slots, verts \in Pointers, indices \in Pointers, c \in DataCounts :
          Mesh_add_data(s, verts, c[1], indices, c[2])
    \/ \E s \in Slots : Mesh_delete_data(s)
    \/ \E s \in Slots : Mesh_dtor(s)
    \/ \E a \in Slots, b \in Slots : copy_construct(a, b)
    \/ \E a \in Slots, b \in Slots : copy_assign(a, b)

SpecMesh == Init /\ [][NextMesh]_vars

\* A program that uses Texture and Sprite objects only.
NextSprite ==
    \/ \E s \in Slots, r \in EngineCreate : Texture_ctor(s, r)
    \/ \E s \in Slots, r \in EngineCreate : Texture_ctor_alt(s, r)
    \/ \E s \in Slots : Texture_dtor(s)
    \/ \E s \in Slots, p \in SpriteArgs, t \in Slots, r \in EngineCreate :
          Sprite_ctor(s, p[1], p[2], t, r)
    \/ \E s \in Slots, p \in SpriteArgs, r \in EngineCreate :
          Sprite_ctor_contained(s, p[1], p[2], r)
    \/ \E s \in Slots : Sprite_dtor(s)
    \/ \E s \in Slots, t \in Transforms : Sprite_set_transform(s, t)
    \/ \E s \in Slots, l \in Layers : Sprite_set_layer(s, l)
    \/ \E s \in Slots : Sprite_draw(s)
    \/ \E a \in Slots, b \in Slots : copy_construct(a, b)
    \/ \E a \in Slots, b \in Slots : copy_assign(a, b)

SpecSprite == Init /\ [][NextSprite]_vars

\* ================================================================ claims
\* The operations that turn an engine failure into a throw.
ConvertingOps ==
    {"init", "Mesh(type,vcount,icount)", "create_mesh", "Texture(filename,flip,vram)",
     "Texture(tex_info)", "Sprite(position,size,texture)", "Sprite(position,size,tex_info)"}

\* C1 as stated: whenever the engine call of a wrapper operation reports failure
\* (a null handle, a negative status), the operation ends by throwing.
C1_EveryFailureThrows == last.engFail => last.threw

\* C1 amended: init, Mesh(type,vcount,icount), create_mesh, both Texture constructors
\* and both Sprite constructors throw whenever their engine call fails; allocate and
\* allocate_aligned never throw and return the engine's pointer, null included;
\* Graphics::init never throws.
C1_FailureThrowsOrIsReturned ==
    /\ (last.op \in ConvertingOps /\ last.engFail) => last.threw
    /\ last.op \in {"allocate", "allocate_aligned"} =>
          (~last.threw /\ (last.engFail <=> last.ret = NULL))
    /\ last.op = "Graphics::init" => ~last.threw

C1_Witness ==
    last.op = "Sprite(position,size,texture)" /\ last.engFail /\ last.threw

\* The constructors that check the engine's answer, and the releasing operations.
\* (The tests of last' come first: they hold of every such step and save the
\* evaluation of the actions on all other steps.)
CtorOps ==
    {"Mesh(type,vcount,icount)", "Texture(filename,flip,vram)", "Texture(tex_info)",
     "Sprite(position,size,texture)", "Sprite(position,size,tex_info)"}

ReleaseOps == {"delete_data", "~Mesh", "~Texture", "~Sprite"}

CheckedCtor(s) ==
    /\ last'.op \in CtorOps
    /\ \/ \E m \in MeshArgs, r \in EngineCreate : Mesh_ctor(s, m[1], m[2], m[3], r)
       \/ \E r \in EngineCreate : Texture_ctor(s, r)
       \/ \E r \in EngineCreate : Texture_ctor_alt(s, r)
       \/ \E p \in SpriteArgs, t \in Slots, r \in EngineCreate :
             Sprite_ctor(s, p[1], p[2], t, r)
       \/ \E p \in SpriteArgs, r \in EngineCreate : Sprite_ctor_contained(s, p[1], p[2], r)

DefaultCtor(s) == last'.op = "Mesh()" /\ Mesh_default(s)

Release(s) ==
    /\ last'.op \in ReleaseOps
    /\ Mesh_delete_data(s) \/ Mesh_dtor(s) \/ Texture_dtor(s) \/ Sprite_dtor(s)

Completed == ~crashed' /\ ~last'.threw

\* C2 as stated: after any constructor that completes without throwing, the Mesh
\* default constructor included, the handle is non-null; after delete_data or a
\* destructor the handle is null.
C2_HandleNonNullAfterAnyCtor ==
    [][\A s \in Slots :
          /\ (Completed /\ (CheckedCtor(s) \/ DefaultCtor(s))) => objs'[s].ir # NULL
          /\ (~crashed' /\ Release(s)) => objs'[s].ir = NULL]_vars

\* C2 amended: after Mesh(type,vcount,icount), either Texture constructor or either
\* Sprite constructor completes without throwing, the object exists and its handle
\* is non-null; the Mesh default constructor leaves the handle null; after
\* delete_data or a destructor the handle is null.
C2_HandleLifecycle ==
    [][\A s \in Slots :
          /\ (Completed /\ CheckedCtor(s)) =>
                (objs'[s].cls \in Classes /\ objs'[s].ir # NULL)
          /\ DefaultCtor(s) => (objs'[s].cls = "Mesh" /\ objs'[s].ir = NULL)
          /\ (~crashed' /\ Release(s)) => objs'[s].ir = NULL]_vars

\* A Texture was constructed with handle 1 and its destructor has released it.
C2_Witness ==
    /\ last.op = "~Texture"
    /\ objs[1].cls = "dead" /\ objs[1].ir = NULL
    /\ destroys[1] = 1

\* A step of create_mesh, of add_data, of delete_data that ran to its end.
CreateMeshStep(s, m, r) ==
    ~crashed' /\ last'.op = "create_mesh" /\ Mesh_create_mesh(s, m[1], m[2], m[3], r)

AddDataStep(s, verts, vcount, indices, icount) ==
    ~crashed' /\ last'.op = "add_data" /\ Mesh_add_data(s, verts, vcount, indices, icount)

DeleteDataStep(s) ==
    ~crashed' /\ last'.op = "delete_data" /\ Mesh_delete_data(s)

\* C3: create_mesh throws exactly when QuickGame_Graphics_Create_Mesh fails, on a
\* Mesh without a handle and on a Mesh that holds one: if the engine would answer
\* with a mesh (r # NULL), create_mesh does not throw and the Mesh holds a handle.
C3_ThrowsIffEngineFails ==
    [][\A s \in Slots, m \in MeshArgs, r \in EngineCreate :
          CreateMeshStep(s, m, r) =>
             /\ last'.threw <=> (r = NULL)
             /\ r # NULL => objs'[s].ir # NULL]_vars

\* The live wrapper objects that hold handle h.
Holders(h) == {s \in Slots : objs[s].cls \in Classes /\ objs[s].ir = h}

\* C4: every handle the engine has handed out is held by exactly one live wrapper
\* and not yet destroyed, or held by none and destroyed exactly once.
C4_ExclusiveOwnership ==
    \A h \in Handles :
        h < nextHandle =>
           /\ Cardinality(Holders(h)) <= 1
           /\ destroys[h] <= 1
           /\ (Holders(h) = {}) <=> (destroys[h] = 1)

\* C5: delete_data leaves the Mesh without a handle, and create_mesh on a Mesh
\* without a handle calls the engine's create once, with the caller's arguments,
\* and when the engine answers with a mesh it does not throw and the Mesh holds
\* that mesh.
C5_ReusableAfterDelete ==
    [][\A s \in Slots :
          /\ DeleteDataStep(s) => objs'[s].ir = NULL
          /\ \A m \in MeshArgs, r \in EngineCreate :
                (objs[s].ir = NULL /\ CreateMeshStep(s, m, r)) =>
                   /\ last'.engCalls = 1
                   /\ last'.engArgs = m
                   /\ r # NULL => (~last'.threw /\ objs'[s].ir = r)]_vars

\* The only object of the program is a Mesh that held handle 1, released it, and
\* holds handle 2 after a create_mesh that did not throw.
C5_Witness ==
    /\ last.op = "create_mesh" /\ ~last.threw /\ last.engCalls = 1
    /\ objs[1].cls = "Mesh" /\ objs[1].ir = 2
    /\ \A s \in Slots : s # 1 => objs[s].cls = "none"
    /\ destroys[1] = 1

\* C6: add_data with a null verts or a null indices pointer throws and leaves the
\* vertex buffers, the index buffers and the handles as they were.
C6_NullDataThrowsFirst ==
    [][\A s \in Slots, verts \in Pointers, indices \in Pointers, c \in DataCounts :
          ((verts = NULL \/ indices = NULL)
              /\ AddDataStep(s, verts, c[1], indices, c[2])) =>
             /\ last'.threw
             /\ emesh' = emesh /\ objs' = objs]_vars

\* A Mesh whose buffers had been filled has just been through a failed add_data.
C6_Witness ==
    /\ last.op = "add_data" /\ last.threw
    /\ \E s \in Slots :
          /\ objs[s].cls = "Mesh" /\ objs[s].ir # NULL
          /\ emesh[objs[s].ir].data # <<>>

\* C7: draw calls QuickGame_Sprite_Draw not at all when the handle is null, and
\* otherwise once, with the engine sprite's transform and layer equal to the
\* wrapper's transform and layer fields.
C7_DrawSyncsFields ==
    last.op = "draw" =>
       /\ ~last.held => last.draws = 0
       /\ last.held => (last.draws = 1 /\ last.drawn = last.fields)

\* A sprite was drawn after the caller had assigned both fields.
C7_Witness ==
    /\ last.op = "draw" /\ last.draws = 1
    /\ last.drawn = <<(<<(<<1, 1>>), 1, (<<2, 2>>)>>), 1>>

\* C8: add_data on a Mesh without a handle, when it runs to its end, has thrown.
C8_NullHandleThrows ==
    [][\A s \in Slots, verts \in Pointers, indices \in Pointers, c \in DataCounts :
          (objs[s].ir = NULL /\ AddDataStep(s, verts, c[1], indices, c[2])) =>
             last'.threw]_vars
====
